---- MODULE Spec2Model ----
(***************************************************************************)
(* State-machine model of src/lib/geminiService.ts: the GeminiService      *)
(* class (prompt construction, request execution with retry, response      *)
(* parsing, error normalisation) and the getGeminiService lazy singleton.  *)
(*                                                                         *)
(* JavaScript strings are modelled as sequences of one-character strings,  *)
(* so that toLowerCase, includes, trim, split, the regular expressions and *)
(* JSON.parse are computed character by character as the code computes    *)
(* them.  Four specifications share the module:                            *)
(*   Spec          one generateFacts / generateSuggestion call at a time,  *)
(*                 split into its synchronous segments at each await;      *)
(*   SpecError     handleError applied to bounded messages;                *)
(*   SpecPrompt    createMoviePrompt applied to bounded MovieData records; *)
(*   SpecSingleton getGeminiService calls interleaved with changes of      *)
(*                 process.env.GEMINI_API_KEY.                             *)
(***************************************************************************)
EXTENDS Integers, Sequences, FiniteSets, TLC

VARIABLES
    \* ---- one service call (Spec)
    pc,         \* "idle" | "request" (awaiting the endpoint) | "timer" (awaiting setTimeout) | "done"
    op,         \* "none" | "facts" | "suggestion"
    data,       \* the MovieData argument of generateFacts
    retries,    \* retry's parameter `retries` of the current frame
    delayMs,    \* retry's parameter `delayMs` of the current frame
    requests,   \* number of generateContent requests issued in this call
    waits,      \* the setTimeout delays awaited in this call, in order
    replies,    \* how each request of this call ended: "resolved" | "rejected"
    lastErr,    \* the value the last rejected request was rejected with
    response,   \* the value the last resolved request resolved with
    outcome,    \* "pending" | "resolved" | "rejected": the promise the call returned
    result,     \* the value the promise resolved with
    \* ---- handleError as a pure function (SpecError)
    errIn,      \* the fragments whose concatenation is error.message
    errOut,     \* what handleError returned
    \* ---- createMoviePrompt as a pure function (SpecPrompt)
    pData,      \* the MovieData argument
    pTz,        \* sign of the host's time-zone offset from UTC
    pPrompt,    \* the title, year and kind label rendered into the prompt
    \* ---- the module-level singleton (SpecSingleton)
    env,                    \* process.env.GEMINI_API_KEY
    geminiServiceInstance,  \* the module variable of the same name
    constructed,            \* GoogleGenAI client handles constructed so far
    calls,                  \* getGeminiService calls made so far
    lastCall                \* what the last getGeminiService call did

svcVars ==
    <<pc, op, data, retries, delayMs, requests, waits, replies, lastErr, response, outcome, result>>
errVars == <<errIn, errOut>>
promptVars == <<pData, pTz, pPrompt>>
singletonVars == <<env, geminiServiceInstance, constructed, calls, lastCall>>
vars == <<svcVars, errVars, promptVars, singletonVars>>

(***************************************************************************)
(* Characters and strings                                                  *)
(***************************************************************************)
\* The backtick, named: the character itself cannot stand in a string literal here.
BT == "U+0060"
\* The character class of the bullet pattern of line 160: "-", "*" and the
\* three characters the source file holds after them.
BulletChars == {"-", "*", "U+00E2", "U+20AC", "U+00A2"}

UpperCase == <<"A","B","C","D","E","F","G","H","I","J","K","L","M",
               "N","O","P","Q","R","S","T","U","V","W","X","Y","Z">>
LowerCase == <<"a","b","c","d","e","f","g","h","i","j","k","l","m",
               "n","o","p","q","r","s","t","u","v","w","x","y","z">>
Digits == <<"0","1","2","3","4","5","6","7","8","9">>
WhiteSpace == {" ", "\n", "\t"}

ToLowerChar(c) ==
    IF \E i \in 1..26 : UpperCase[i] = c
    THEN LowerCase[CHOOSE i \in 1..26 : UpperCase[i] = c]
    ELSE c

\* String.prototype.toLowerCase
toLowerCase(s) == [i \in 1..Len(s) |-> ToLowerChar(s[i])]

\* String.prototype.includes
includes(s, sub) ==
    \E i \in 0..(Len(s) - Len(sub)) : SubSeq(s, i + 1, i + Len(sub)) = sub

\* String.prototype.startsWith
startsWith(s, pre) == Len(s) >= Len(pre) /\ SubSeq(s, 1, Len(pre)) = pre

IsDigit(c) == \E i \in 1..10 : Digits[i] = c
DigitVal(c) == (CHOOSE i \in 1..10 : Digits[i] = c) - 1

\* Index of the first character at or after i that is not white space.
RECURSIVE SkipWs(_, _)
SkipWs(s, i) == IF i <= Len(s) /\ s[i] \in WhiteSpace THEN SkipWs(s, i + 1) ELSE i

\* Index of the last character at or before i that is not white space.
RECURSIVE SkipWsBack(_, _)
SkipWsBack(s, i) == IF i >= 1 /\ s[i] \in WhiteSpace THEN SkipWsBack(s, i - 1) ELSE i

\* String.prototype.trim
trim(s) == SubSeq(s, SkipWs(s, 1), SkipWsBack(s, Len(s)))

\* Number.prototype.toString for an integer
RECURSIVE NatToString(_)
NatToString(n) ==
    IF n < 10 THEN <<Digits[n + 1]>> ELSE NatToString(n \div 10) \o <<Digits[(n % 10) + 1]>>
IntToString(n) == IF n < 0 THEN <<"-">> \o NatToString(-n) ELSE NatToString(n)

(***************************************************************************)
(* JavaScript values that can be thrown or rejected with                   *)
(***************************************************************************)
\* An Error (or subclass) instance with the given message.
ErrorObj(m) == [k |-> "Error", message |-> m]
\* Values that are not Error instances: a string primitive, undefined, null.
StringVal(s) == [k |-> "string", message |-> s]
UndefinedVal == [k |-> "undefined", message |-> <<>>]
NullVal == [k |-> "null", message |-> <<>>]

(***************************************************************************)
(* ERROR HANDLING (source lines 197-217)                                   *)
(***************************************************************************)
KwApiKey == <<"a","p","i"," ","k","e","y">>
KwAuthentication == <<"a","u","t","h","e","n","t","i","c","a","t","i","o","n">>
KwQuota == <<"q","u","o","t","a">>
KwRateLimit == <<"r","a","t","e"," ","l","i","m","i","t">>
KwOverloaded == <<"o","v","e","r","l","o","a","d","e","d">>
KwUnavailable == <<"u","n","a","v","a","i","l","a","b","l","e">>
KwBlocked == <<"b","l","o","c","k","e","d">>
KwSafety == <<"s","a","f","e","t","y">>

MsgAuth == <<"A","I"," ","s","e","r","v","i","c","e"," ","a","u","t","h","e","n","t","i","c","a","t","i","o","n"," ","f","a","i","l","e","d","."," ","P","l","e","a","s","e"," ","c","h","e","c","k"," ","c","o","n","f","i","g","u","r","a","t","i","o","n",".">>
MsgRateLimit == <<"A","I"," ","s","e","r","v","i","c","e"," ","r","a","t","e"," ","l","i","m","i","t"," ","e","x","c","e","e","d","e","d","."," ","P","l","e","a","s","e"," ","t","r","y"," ","a","g","a","i","n"," ","l","a","t","e","r",".">>
MsgOverloaded == <<"T","h","e"," ","A","I"," ","s","e","r","v","i","c","e"," ","i","s"," ","t","e","m","p","o","r","a","r","i","l","y"," ","o","v","e","r","l","o","a","d","e","d","."," ","P","l","e","a","s","e"," ","t","r","y"," ","a","g","a","i","n"," ","s","h","o","r","t","l","y",".">>
MsgBlocked == <<"C","o","n","t","e","n","t"," ","w","a","s"," ","b","l","o","c","k","e","d"," ","b","y"," ","s","a","f","e","t","y"," ","f","i","l","t","e","r","s",".">>

\* What a function call did: returned `value`, or threw `value`.
Returned(v) == [threw |-> FALSE, value |-> v]
Threw(v) == [threw |-> TRUE, value |-> v]

\* The TypeError of `error.message` on undefined/null and of
\* `undefined.toLowerCase()` when the thrown value carries no message.
TypeErrorNoMessage ==
    ErrorObj(<<"C","a","n","n","o","t"," ","r","e","a","d"," ","p","r","o","p","e","r","t","i","e","s">>)

\* Classify with the rate-limit test moved before the authentication test.
ClassifyRateLimitFirst(original) ==
    LET message == toLowerCase(original) IN
    IF includes(message, KwQuota) \/ includes(message, KwRateLimit) THEN MsgRateLimit
    ELSE IF includes(message, KwApiKey) \/ includes(message, KwAuthentication) THEN MsgAuth
    ELSE IF includes(message, KwOverloaded) \/ includes(message, KwUnavailable) THEN MsgOverloaded
    ELSE IF includes(message, KwBlocked) \/ includes(message, KwSafety) THEN MsgBlocked
    ELSE original

\* The classification of a message string: lines 198-216.
Classify(original) ==
    LET message == toLowerCase(original) IN
    IF includes(message, KwApiKey) \/ includes(message, KwAuthentication) THEN MsgAuth
    ELSE IF includes(message, KwQuota) \/ includes(message, KwRateLimit) THEN MsgRateLimit
    ELSE IF includes(message, KwOverloaded) \/ includes(message, KwUnavailable) THEN MsgOverloaded
    ELSE IF includes(message, KwBlocked) \/ includes(message, KwSafety) THEN MsgBlocked
    ELSE original

\* handleError(error): `error as Error` is a compile-time cast only, so the
\* argument is whatever was thrown.
handleError(error) ==
    IF error.k # "Error" THEN Threw(TypeErrorNoMessage) ELSE Returned(Classify(error.message))

(***************************************************************************)
(* JSON.parse, on the JSON texts without escape sequences, fractions and   *)
(* exponents (the reply texts below use none of them).                     *)
(* A parsed value is [t, v]: t the JavaScript type, v its content.         *)
(***************************************************************************)
JStr(s) == [t |-> "str", v |-> s]
JNum(n) == [t |-> "num", v |-> n]
JBool(b) == [t |-> "bool", v |-> b]
JNull == [t |-> "null", v |-> 0]
JUndefined == [t |-> "undefined", v |-> 0]
JArr(elems) == [t |-> "arr", v |-> elems]
\* members: a sequence of <<key, value>> in source order
JObj(members) == [t |-> "obj", v |-> members]

\* A parse step: ok, the value, and the index after it.
POk(v, i) == [ok |-> TRUE, v |-> v, i |-> i]
PFail == [ok |-> FALSE, v |-> JNull, i |-> 0]

\* Index of the first `"` at or after i, or Len(s)+1.
RECURSIVE FindQuote(_, _)
FindQuote(s, i) == IF i > Len(s) \/ s[i] = "\"" THEN i ELSE FindQuote(s, i + 1)

\* A string literal starting at s[i] = `"`; a raw control character in it is an error.
ParseString(s, i) ==
    LET j == FindQuote(s, i + 1)
        body == SubSeq(s, i + 1, j - 1) IN
    IF j > Len(s) \/ \E k \in 1..Len(body) : body[k] \in {"\n", "\t"}
    THEN PFail
    ELSE POk(JStr(body), j + 1)

\* Index after the digits starting at i.
RECURSIVE SkipDigits(_, _)
SkipDigits(s, i) == IF i <= Len(s) /\ IsDigit(s[i]) THEN SkipDigits(s, i + 1) ELSE i

RECURSIVE DigitsValue(_, _, _)
DigitsValue(s, i, j) ==
    IF j < i THEN 0 ELSE DigitsValue(s, i, j - 1) * 10 + DigitVal(s[j])

\* An integer literal: "-"? ( "0" | [1-9][0-9]* ).
ParseNumber(s, i) ==
    LET neg == s[i] = "-"
        d == IF neg THEN i + 1 ELSE i
        e == IF d <= Len(s) /\ s[d] = "0" THEN d + 1 ELSE SkipDigits(s, d)
        n == DigitsValue(s, d, e - 1) IN
    IF e = d THEN PFail ELSE POk(JNum(IF neg THEN -n ELSE n), e)

LitTrue == <<"t","r","u","e">>
LitFalse == <<"f","a","l","s","e">>
LitNull == <<"n","u","l","l">>

RECURSIVE ParseValue(_, _), ParseElements(_, _, _), ParseMembers(_, _, _)

\* One JSON value starting at s[i] (white space already skipped).
ParseValue(s, i) ==
    IF i > Len(s) THEN PFail
    ELSE IF s[i] = "\"" THEN ParseString(s, i)
    ELSE IF s[i] = "-" \/ IsDigit(s[i]) THEN ParseNumber(s, i)
    ELSE IF startsWith(SubSeq(s, i, Len(s)), LitTrue) THEN POk(JBool(TRUE), i + 4)
    ELSE IF startsWith(SubSeq(s, i, Len(s)), LitFalse) THEN POk(JBool(FALSE), i + 5)
    ELSE IF startsWith(SubSeq(s, i, Len(s)), LitNull) THEN POk(JNull, i + 4)
    ELSE IF s[i] = "["
         THEN LET j == SkipWs(s, i + 1) IN
              IF j <= Len(s) /\ s[j] = "]" THEN POk(JArr(<<>>), j + 1)
              ELSE ParseElements(s, j, <<>>)
    ELSE IF s[i] = "{"
         THEN LET j == SkipWs(s, i + 1) IN
              IF j <= Len(s) /\ s[j] = "}" THEN POk(JObj(<<>>), j + 1)
              ELSE ParseMembers(s, j, <<>>)
    ELSE PFail

\* The elements of an array from s[i] on, `acc` the elements read so far.
ParseElements(s, i, acc) ==
    LET r == ParseValue(s, i) IN
    IF ~r.ok THEN PFail
    ELSE LET j == SkipWs(s, r.i)
             elems == Append(acc, r.v) IN
         IF j > Len(s) THEN PFail
         ELSE IF s[j] = "]" THEN POk(JArr(elems), j + 1)
         ELSE IF s[j] = "," THEN ParseElements(s, SkipWs(s, j + 1), elems)
         ELSE PFail

\* The members of an object from s[i] on, `acc` the members read so far.
ParseMembers(s, i, acc) ==
    IF i > Len(s) \/ s[i] # "\"" THEN PFail
    ELSE LET key == ParseString(s, i) IN
         IF ~key.ok THEN PFail
         ELSE LET c == SkipWs(s, key.i) IN
              IF c > Len(s) \/ s[c] # ":" THEN PFail
              ELSE LET r == ParseValue(s, SkipWs(s, c + 1)) IN
                   IF ~r.ok THEN PFail
                   ELSE LET j == SkipWs(s, r.i)
                            members == Append(acc, <<key.v.v, r.v>>) IN
                        IF j > Len(s) THEN PFail
                        ELSE IF s[j] = "}" THEN POk(JObj(members), j + 1)
                        ELSE IF s[j] = "," THEN ParseMembers(s, SkipWs(s, j + 1), members)
                        ELSE PFail

\* The message of the SyntaxError JSON.parse throws (its wording is the engine's).
MsgSyntaxError == <<"U","n","e","x","p","e","c","t","e","d"," ","t","o","k","e","n"," ","i","n"," ","J","S","O","N">>

\* JSON.parse(text): returns the value or throws a SyntaxError.
JSONparse(text) ==
    LET r == ParseValue(text, SkipWs(text, 1)) IN
    IF r.ok /\ SkipWs(text, r.i) = Len(text) + 1
    THEN Returned(r.v)
    ELSE Threw(ErrorObj(MsgSyntaxError))

\* Property read s?.key / s.key: the last member of that name, else undefined.
GetProp(s, key) ==
    IF s.t = "obj" /\ \E i \in 1..Len(s.v) : s.v[i][1] = key
    THEN s.v[CHOOSE i \in 1..Len(s.v) :
                 s.v[i][1] = key /\ \A j \in (i + 1)..Len(s.v) : s.v[j][1] # key][2]
    ELSE JUndefined

\* ToBoolean
Truthy(x) ==
    CASE x.t = "str" -> Len(x.v) > 0
      [] x.t = "num" -> x.v # 0
      [] x.t = "bool" -> x.v
      [] x.t \in {"null", "undefined"} -> FALSE
      [] OTHER -> TRUE

\* x.toString() of a truthy value.
RECURSIVE JoinToString(_, _)
toString(x) ==
    CASE x.t = "str" -> x.v
      [] x.t = "num" -> IntToString(x.v)
      [] x.t = "bool" -> IF x.v THEN LitTrue ELSE LitFalse
      [] x.t = "arr" -> JoinToString(x.v, 1)
      [] OTHER -> <<"[","o","b","j","e","c","t"," ","O","b","j","e","c","t","]">>
\* Array.prototype.toString: the elements from index i on joined by ",".
JoinToString(elems, i) ==
    IF i > Len(elems) THEN <<>>
    ELSE (IF elems[i].t \in {"null", "undefined"} THEN <<>> ELSE toString(elems[i]))
         \o (IF i < Len(elems) THEN <<",">> ELSE <<>>)
         \o JoinToString(elems, i + 1)

(***************************************************************************)
(* PARSERS (source lines 142-191)                                          *)
(***************************************************************************)
MinFactLength == 10
MinLineLength == 20
MaxFacts == 10

FenceOpen == <<BT,BT,BT,"j","s","o","n">>
FenceClose == <<BT,BT,BT>>

\* .replace(/^```json\s*/i, "")
StripFenceOpen(s) ==
    IF startsWith(toLowerCase(s), FenceOpen)
    THEN SubSeq(s, SkipWs(s, Len(FenceOpen) + 1), Len(s))
    ELSE s

\* .replace(/```\s*$/i, ""): the leftmost ``` that only white space follows.
StripFenceClose(s) ==
    LET Matches(p) == /\ SubSeq(s, p, p + 2) = FenceClose
                      /\ SkipWs(s, p + 3) = Len(s) + 1
        ps == {p \in 1..(Len(s) - 2) : Matches(p)} IN
    IF ps = {} THEN s
    ELSE SubSeq(s, 1, (CHOOSE p \in ps : \A q \in ps : p <= q) - 1)

\* The `cleaned` text of both parsers (lines 143-146 and 168-171).
Cleaned(responseText) == trim(StripFenceClose(StripFenceOpen(responseText)))

\* Array.prototype.slice(0, n)
SliceFirst(seq, n) == SubSeq(seq, 1, IF Len(seq) < n THEN Len(seq) ELSE n)

\* String.prototype.split("\n")
RECURSIVE SplitLines(_, _, _)
SplitLines(s, i, cur) ==
    IF i > Len(s) THEN <<cur>>
    ELSE IF s[i] = "\n" THEN <<cur>> \o SplitLines(s, i + 1, <<>>)
    ELSE SplitLines(s, i + 1, Append(cur, s[i]))

\* l.replace(/^\d+\.\s*/, "")
StripEnumeration(l) ==
    LET n == SkipDigits(l, 1) IN
    IF n > 1 /\ n <= Len(l) /\ l[n] = "." THEN SubSeq(l, SkipWs(l, n + 1), Len(l)) ELSE l

\* l.replace(/^[-*...]\s*/, ""), the class of line 160
StripBullet(l) ==
    IF Len(l) >= 1 /\ l[1] \in BulletChars
    THEN SubSeq(l, SkipWs(l, 2), Len(l))
    ELSE l

\* The filter of the JSON-array path (line 152).
KeepFact(f) == f.t = "str" /\ Len(trim(f.v)) > MinFactLength

\* The filter of the line-based path (line 159).
KeepLine(l) == Len(l) > MinLineLength /\ ~startsWith(l, <<"{">>) /\ ~startsWith(l, <<"[">>)

\* The catch branch of parseFactsResponse (lines 156-161).
FallbackFacts(responseText) ==
    LET lines == SplitLines(responseText, 1, <<>>)
        trimmed == [i \in 1..Len(lines) |-> trim(lines[i])]
        kept == SelectSeq(trimmed, KeepLine)
        stripped == [i \in 1..Len(kept) |-> StripBullet(StripEnumeration(kept[i]))] IN
    SliceFirst(stripped, MaxFacts)

\* parseFactsResponse(responseText): never throws.
parseFactsResponse(responseText) ==
    LET parsed == JSONparse(Cleaned(responseText)) IN
    IF parsed.threw THEN FallbackFacts(responseText)
    ELSE IF parsed.value.t = "arr"
         THEN LET kept == SelectSeq(parsed.value.v, KeepFact) IN
              SliceFirst([i \in 1..Len(kept) |-> kept[i].v], MaxFacts)
         ELSE <<>>

Movie == <<"m","o","v","i","e">>
Series == <<"s","e","r","i","e","s">>
KeyTitle == <<"t","i","t","l","e">>
KeyYear == <<"y","e","a","r">>
KeyType == <<"t","y","p","e">>
KeyOverview == <<"o","v","e","r","v","i","e","w">>
KeyReason == <<"r","e","a","s","o","n">>
KeySearchKeyword == <<"s","e","a","r","c","h","K","e","y","w","o","r","d">>
SuggestionKeys == <<KeyTitle, KeyYear, KeyType, KeyOverview, KeyReason, KeySearchKeyword>>

MsgInvalidFormat == <<"I","n","v","a","l","i","d"," ","s","u","g","g","e","s","t","i","o","n"," ","f","o","r","m","a","t">>
MsgInvalidType == <<"I","n","v","a","l","i","d"," ","s","u","g","g","e","s","t","i","o","n"," ","t","y","p","e">>
\* The TypeError of calling .trim on a value that is not a string.
MsgNotAFunction(key) ==
    <<"s",".">> \o key \o <<".","t","r","i","m"," ","i","s"," ","n","o","t"," ","a"," ","f","u","n","c","t","i","o","n">>

\* The validation of line 175: every one of the six fields is truthy.
AllFieldsTruthy(s) == \A i \in 1..Len(SuggestionKeys) : Truthy(GetProp(s, SuggestionKeys[i]))

\* The validation of line 179.
TypeIsValid(s) ==
    LET ty == GetProp(s, KeyType) IN ty.t = "str" /\ ty.v \in {Movie, Series}

\* The record built at lines 183-190; the first field whose .trim is not a
\* function throws.
BuildSuggestion(s) ==
    LET trimmedKeys == <<KeyTitle, KeyOverview, KeyReason, KeySearchKeyword>>
        bad == {i \in 1..Len(trimmedKeys) : GetProp(s, trimmedKeys[i]).t # "str"} IN
    IF bad # {}
    THEN Threw(ErrorObj(MsgNotAFunction(trimmedKeys[CHOOSE i \in bad : \A j \in bad : i <= j])))
    ELSE Returned([title |-> trim(GetProp(s, KeyTitle).v),
                   year |-> toString(GetProp(s, KeyYear)),
                   type |-> GetProp(s, KeyType).v,
                   overview |-> trim(GetProp(s, KeyOverview).v),
                   reason |-> trim(GetProp(s, KeyReason).v),
                   searchKeyword |-> trim(GetProp(s, KeySearchKeyword).v)])

\* parseSuggestionResponse(responseText): returns the record or throws.
parseSuggestionResponse(responseText) ==
    LET parsed == JSONparse(Cleaned(responseText)) IN
    IF parsed.threw THEN parsed
    ELSE IF ~AllFieldsTruthy(parsed.value) THEN Threw(ErrorObj(MsgInvalidFormat))
    ELSE IF ~TypeIsValid(parsed.value) THEN Threw(ErrorObj(MsgInvalidType))
    ELSE BuildSuggestion(parsed.value)

(***************************************************************************)
(* The external endpoint: ai.models.generateContent                        *)
(***************************************************************************)
\* An optional value: a property that may be absent (undefined).
None == [has |-> FALSE, v |-> <<>>]
Some(x) == [has |-> TRUE, v |-> x]

\* The texts the endpoint may reply with.
ReplyTexts ==
    {
      \* The example of spec section 8: a fenced array of two facts
      <<BT,BT,BT,"j","s","o","n","\n","[","\"","a"," ","v","a","l","i","d"," ","f","a","c","t"," ","h",
        "e","r","e","\"",",","\"","a","n","o","t","h","e","r"," ","o","n","e"," ","t","o","o","\"","]","\n",
        BT,BT,BT>>,
      \* An array holding a short string, a fact and a number
      <<"[","\"","s","h","o","r","t","\"",","," ","\"","a"," ","v","a","l","i","d"," ","f","a","c","t"," ",
        "h","e","r","e","\"",","," ","4","2","]">>,
      \* An array whose only string is too short
      <<"[","\"","s","h","o","r","t","\"","]">>,
      \* An array of twelve facts
      <<"[","\"","f","a","c","t"," ","n","u","m","b","e","r"," ","0","1","\"",",","\"","f","a","c","t"," ",
        "n","u","m","b","e","r"," ","0","2","\"",",","\"","f","a","c","t"," ","n","u","m","b","e","r"," ",
        "0","3","\"",",","\"","f","a","c","t"," ","n","u","m","b","e","r"," ","0","4","\"",",","\"","f","a",
        "c","t"," ","n","u","m","b","e","r"," ","0","5","\"",",","\"","f","a","c","t"," ","n","u","m","b",
        "e","r"," ","0","6","\"",",","\"","f","a","c","t"," ","n","u","m","b","e","r"," ","0","7","\"",",",
        "\"","f","a","c","t"," ","n","u","m","b","e","r"," ","0","8","\"",",","\"","f","a","c","t"," ","n",
        "u","m","b","e","r"," ","0","9","\"",",","\"","f","a","c","t"," ","n","u","m","b","e","r"," ","1",
        "0","\"",",","\"","f","a","c","t"," ","n","u","m","b","e","r"," ","1","1","\"",",","\"","f","a","c",
        "t"," ","n","u","m","b","e","r"," ","1","2","\"","]">>,
      \* Valid JSON that is no array, and a valid suggestion with a numeric year
      <<"{","\"","t","i","t","l","e","\"",":","\"","X","\"",",","\"","y","e","a","r","\"",":","2","0","2","0",
        ",","\"","t","y","p","e","\"",":","\"","m","o","v","i","e","\"",",","\"","o","v","e","r","v","i","e",
        "w","\"",":","\"","o","\"",",","\"","r","e","a","s","o","n","\"",":","\"","r","\"",",","\"","s","e","a",
        "r","c","h","K","e","y","w","o","r","d","\"",":","\"","k","\"","}">>,
      \* The example of spec section 8: no JSON, one long line and one short
      <<"n","o","t"," ","j","s","o","n"," ","a","t"," ","a","l","l"," ","b","u","t"," ","t","h","i","s",
        " ","l","i","n","e"," ","i","s"," ","l","o","n","g"," ","e","n","o","u","g","h"," ","t","o"," ",
        "c","o","u","n","t","\n","s","h","o","r","t">>,
      \* No JSON: an enumeration marker, padding, and a short text
      <<"1","."," "," "," "," "," "," "," "," "," "," "," "," "," "," "," "," "," "," "," ","H","i"," ",
        "t","h","e","r","e">>,
      \* No JSON: a bulleted line
      <<"-"," ","t","h","i","s"," ","i","s"," ","a"," ","b","u","l","l","e","t","e","d"," ","f","a","c",
        "t"," ","l","i","n","e">>,
      \* No JSON, nothing long enough
      <<"s","h","o","r","t">>,
      \* No JSON: a long line that starts with a bracket
      <<"[","n","o","t"," ","j","s","o","n"," ","b","u","t"," ","i","t"," ","s","t","a","r","t","s"," ",
        "w","i","t","h"," ","a"," ","b","r","a","c","k","e","t">>,
      \* White space only
      <<" "," ">>,
      \* A fenced suggestion of type series with a string year
      <<BT,BT,BT,"J","S","O","N","\n","{","\"","t","i","t","l","e","\"",":","\""," ","D","a","r","k"," ",
        "\"",",","\"","y","e","a","r","\"",":","\"","2","0","1","7","\"",",","\"","t","y","p","e","\"",":","\"",
        "s","e","r","i","e","s","\"",",","\"","o","v","e","r","v","i","e","w","\"",":","\"","o","\"",",","\"",
        "r","e","a","s","o","n","\"",":","\"","r","\"",",","\"","s","e","a","r","c","h","K","e","y","w","o",
        "r","d","\"",":","\"","d","a","r","k","\"","}","\n",BT,BT,BT>>,
      \* A suggestion of type book
      <<"{","\"","t","i","t","l","e","\"",":","\"","X","\"",",","\"","y","e","a","r","\"",":","2","0","2","0",
        ",","\"","t","y","p","e","\"",":","\"","b","o","o","k","\"",",","\"","o","v","e","r","v","i","e","w",
        "\"",":","\"","o","\"",",","\"","r","e","a","s","o","n","\"",":","\"","r","\"",",","\"","s","e","a","r",
        "c","h","K","e","y","w","o","r","d","\"",":","\"","k","\"","}">>,
      \* A suggestion without reason
      <<"{","\"","t","i","t","l","e","\"",":","\"","X","\"",",","\"","y","e","a","r","\"",":","2","0","2","0",
        ",","\"","t","y","p","e","\"",":","\"","m","o","v","i","e","\"",",","\"","o","v","e","r","v","i","e",
        "w","\"",":","\"","o","\"",",","\"","s","e","a","r","c","h","K","e","y","w","o","r","d","\"",":","\"",
        "k","\"","}">>,
      \* A suggestion whose title is one space
      <<"{","\"","t","i","t","l","e","\"",":","\""," ","\"",",","\"","y","e","a","r","\"",":","2","0","2","0",
        ",","\"","t","y","p","e","\"",":","\"","m","o","v","i","e","\"",",","\"","o","v","e","r","v","i","e",
        "w","\"",":","\"","o","\"",",","\"","r","e","a","s","o","n","\"",":","\"","r","\"",",","\"","s","e","a",
        "r","c","h","K","e","y","w","o","r","d","\"",":","\"","k","\"","}">>,
      \* A suggestion whose title is a number
      <<"{","\"","t","i","t","l","e","\"",":","7",",","\"","y","e","a","r","\"",":","2","0","2","0",",","\"",
        "t","y","p","e","\"",":","\"","m","o","v","i","e","\"",",","\"","o","v","e","r","v","i","e","w","\"",
        ":","\"","o","\"",",","\"","r","e","a","s","o","n","\"",":","\"","r","\"",",","\"","s","e","a","r","c",
        "h","K","e","y","w","o","r","d","\"",":","\"","k","\"","}">>,
      \* The JSON text null
      <<"n","u","l","l">>
    }

\* What a request may resolve with: undefined, a response without text, a
\* response with the empty text, a response with one of the texts.
Responses ==
    {[defined |-> FALSE, text |-> None], [defined |-> TRUE, text |-> None],
     [defined |-> TRUE, text |-> Some(<<>>)]}
    \cup {[defined |-> TRUE, text |-> Some(t)] : t \in ReplyTexts}

\* The messages of the errors a request may reject with.
RejectMessages ==
    {<<"A","P","I"," ","k","e","y"," ","n","o","t"," ","v","a","l","i","d">>,
     <<"Q","u","o","t","a"," ","e","x","c","e","e","d","e","d">>,
     <<"T","h","e"," ","m","o","d","e","l"," ","i","s"," ","o","v","e","r","l","o","a","d","e","d">>,
     <<"R","e","s","p","o","n","s","e"," ","w","a","s"," ","b","l","o","c","k","e","d">>,
     <<"f","e","t","c","h"," ","f","a","i","l","e","d">>,
     <<>>}

\* What a request may reject with: any JavaScript value can be thrown.
Rejections ==
    {ErrorObj(m) : m \in RejectMessages}
    \cup {StringVal(<<"b","o","o","m">>), UndefinedVal, NullVal}

\* !response?.text
NoText(resp) ==
    ~resp.defined \/ ~resp.text.has \/ Len(resp.text.v) = 0

(***************************************************************************)
(* API METHODS and RETRY WRAPPER (source lines 223-296)                    *)
(*                                                                         *)
(* An async function runs without interruption between two awaits, so each *)
(* action below is one such segment of generateFacts / generateSuggestion  *)
(* and of the retry frames they have on the stack.                         *)
(***************************************************************************)
DefaultRetries == 2
DefaultDelayMs == 900

MsgTitleRequired == <<"T","i","t","l","e"," ","i","s"," ","r","e","q","u","i","r","e","d">>
MsgEmptyResponse ==
    <<"E","m","p","t","y"," ","r","e","s","p","o","n","s","e"," ","f","r","o","m"," ",
      "G","e","m","i","n","i"," ","A","P","I">>
MsgNoFacts ==
    <<"N","o"," ","v","a","l","i","d"," ","f","a","c","t","s"," ","e","x","t","r","a","c","t","e","d">>

\* The titles and names a MovieData record may carry: absent, empty, set.
TitleValues == {None, Some(<<>>), Some(<<"H","e","a","t">>)}
NameValues == {None, Some(<<>>), Some(<<"D","a","r","k">>)}
MovieDataValues == [title : TitleValues, name : NameValues]

\* ToBoolean of an optional string property
TruthyProp(p) == p.has /\ Len(p.v) > 0

\* data.name || data.title (line 272)
NameOrTitle(d) == IF TruthyProp(d.name) THEN d.name ELSE d.title

\* How the promise of a call settles.
Resolve(r) == [outcome |-> "resolved", result |-> r]
Reject(e) == [outcome |-> "rejected", result |-> e]
Pending == [outcome |-> "pending", result |-> [pending |-> TRUE]]

\* The placeholder of lines 256-263.
PlaceholderSuggestion ==
    [title |-> <<>>, year |-> <<>>, type |-> Movie, overview |-> <<>>,
     reason |-> <<>>, searchKeyword |-> <<>>]

\* The catch block of generateFacts (lines 290-295); a throw of handleError
\* leaves the async function, which rejects its promise.
CatchFacts(error) ==
    LET msg == handleError(error) IN
    IF msg.threw THEN Reject(msg.value)
    ELSE Resolve([facts |-> <<>>, success |-> FALSE, error |-> Some(msg.value)])

\* The catch block of generateSuggestion (lines 251-267).
CatchSuggestion(error) ==
    LET msg == handleError(error) IN
    IF msg.threw THEN Reject(msg.value)
    ELSE Resolve([suggestion |-> PlaceholderSuggestion, success |-> FALSE,
                  error |-> Some(msg.value)])

\* generateFacts from the return of retry on (lines 284-289).
FactsFromResponse(resp) ==
    IF NoText(resp) THEN CatchFacts(ErrorObj(MsgEmptyResponse))
    ELSE LET facts == parseFactsResponse(resp.text.v) IN
         IF Len(facts) = 0 THEN CatchFacts(ErrorObj(MsgNoFacts))
         ELSE Resolve([facts |-> facts, success |-> TRUE, error |-> None])

\* generateSuggestion from the return of generateContent on (lines 246-250).
SuggestionFromResponse(resp) ==
    IF NoText(resp) THEN CatchSuggestion(ErrorObj(MsgEmptyResponse))
    ELSE LET parsed == parseSuggestionResponse(resp.text.v) IN
         IF parsed.threw THEN CatchSuggestion(parsed.value)
         ELSE Resolve([suggestion |-> parsed.value, success |-> TRUE, error |-> None])

\* retry's test of line 227: the rejection leaves retry when no retry remains.
RetriesExhausted(n) == n <= 0

\* The delay of the next retry frame (line 229).
NextDelay(d) == d * 2

Settle(s) ==
    /\ pc' = "done"
    /\ outcome' = s.outcome
    /\ result' = s.result

\* generateFacts without the title check of line 273: the request is issued
\* whatever the record holds.
CallGenerateFactsUnchecked(d) ==
    /\ pc = "idle"
    /\ op' = "facts"
    /\ data' = d
    /\ pc' = "request"
    /\ retries' = DefaultRetries
    /\ delayMs' = DefaultDelayMs
    /\ requests' = requests + 1
    /\ UNCHANGED <<waits, replies, lastErr, response, outcome, result>>

\* generateFacts(d) up to its first await: the title check, then retry's first
\* call of fn, which issues the request.
CallGenerateFacts(d) ==
    /\ pc = "idle"
    /\ op' = "facts"
    /\ data' = d
    /\ IF ~TruthyProp(NameOrTitle(d))
       THEN /\ Settle(CatchFacts(ErrorObj(MsgTitleRequired)))
            /\ UNCHANGED <<retries, delayMs, requests>>
       ELSE /\ pc' = "request"
            /\ retries' = DefaultRetries
            /\ delayMs' = DefaultDelayMs
            /\ requests' = requests + 1
            /\ UNCHANGED <<outcome, result>>
    /\ UNCHANGED <<waits, replies, lastErr, response>>

\* generateSuggestion() up to its await of generateContent.
CallGenerateSuggestion ==
    /\ pc = "idle"
    /\ op' = "suggestion"
    /\ pc' = "request"
    /\ requests' = requests + 1
    /\ UNCHANGED <<data, retries, delayMs, waits, replies, lastErr, response, outcome, result>>

\* EndpointResolves with the empty-response test of line 284 inside the
\* retried operation: a reply without text is retried like a rejection.
EndpointResolvesRetryingEmpty(r) ==
    /\ pc = "request"
    /\ replies' = Append(replies, "resolved")
    /\ response' = r
    /\ IF op = "facts" /\ NoText(r) /\ ~RetriesExhausted(retries)
       THEN /\ pc' = "timer"
            /\ waits' = Append(waits, delayMs)
            /\ UNCHANGED <<outcome, result>>
       ELSE /\ Settle(IF op = "facts" THEN FactsFromResponse(r) ELSE SuggestionFromResponse(r))
            /\ UNCHANGED waits
    /\ UNCHANGED <<op, data, retries, delayMs, requests, lastErr>>

\* The request resolves: retry returns the response (facts path), and the
\* caller runs to its return or through its catch block.
EndpointResolves(r) ==
    /\ pc = "request"
    /\ replies' = Append(replies, "resolved")
    /\ response' = r
    /\ Settle(IF op = "facts" THEN FactsFromResponse(r) ELSE SuggestionFromResponse(r))
    /\ UNCHANGED <<op, data, retries, delayMs, requests, waits, lastErr>>

\* The request rejects: on the facts path retry either starts its timer or
\* rethrows into generateFacts' catch; generateSuggestion catches at once.
EndpointRejects(err) ==
    /\ pc = "request"
    /\ replies' = Append(replies, "rejected")
    /\ lastErr' = err
    /\ IF op = "facts"
       THEN IF RetriesExhausted(retries)
            THEN /\ Settle(CatchFacts(err))
                 /\ UNCHANGED waits
            ELSE /\ pc' = "timer"
                 /\ waits' = Append(waits, delayMs)
                 /\ UNCHANGED <<outcome, result>>
       ELSE /\ Settle(CatchSuggestion(err))
            /\ UNCHANGED waits
    /\ UNCHANGED <<op, data, retries, delayMs, requests, response>>

\* The timer of line 228 fires: retry calls itself (line 229) and the new
\* frame calls fn, which issues the next request.
TimerFires ==
    /\ pc = "timer"
    /\ pc' = "request"
    /\ retries' = retries - 1
    /\ delayMs' = NextDelay(delayMs)
    /\ requests' = requests + 1
    /\ UNCHANGED <<op, data, waits, replies, lastErr, response, outcome, result>>

\* The caller has its settled promise; the next call starts from scratch.
CallerContinues ==
    /\ pc = "done"
    /\ pc' = "idle"
    /\ op' = "none"
    /\ data' = [title |-> None, name |-> None]
    /\ retries' = 0
    /\ delayMs' = 0
    /\ requests' = 0
    /\ waits' = <<>>
    /\ replies' = <<>>
    /\ lastErr' = UndefinedVal
    /\ response' = [defined |-> FALSE, text |-> None]
    /\ outcome' = Pending.outcome
    /\ result' = Pending.result

ServiceStart ==
    /\ pc = "idle"
    /\ op = "none"
    /\ data = [title |-> None, name |-> None]
    /\ retries = 0
    /\ delayMs = 0
    /\ requests = 0
    /\ waits = <<>>
    /\ replies = <<>>
    /\ lastErr = UndefinedVal
    /\ response = [defined |-> FALSE, text |-> None]
    /\ outcome = Pending.outcome
    /\ result = Pending.result

(***************************************************************************)
(* handleError on bounded messages (SpecError)                             *)
(***************************************************************************)
\* The pieces messages are put together from: every keyword in some letter
\* case, two halves of a keyword, and text without any keyword.
Fragments ==
    <<<<"A","P","I"," ","K","e","y"," ">>,
      <<"A","u","t","h","e","n","t","i","c","a","t","i","o","n">>,
      <<"Q","U","O","T","A">>,
      <<"Q","u","o","t","a"," ","e","x","c","e","e","d","e","d">>,
      <<"R","a","t","e"," ">>,
      <<"L","i","m","i","t">>,
      <<"O","v","e","r","l","o","a","d","e","d">>,
      <<"U","N","A","V","A","I","L","A","B","L","E">>,
      <<"B","l","o","c","k","e","d">>,
      <<"S","a","f","e","t","y">>,
      <<"f","e","t","c","h"," ","f","a","i","l","e","d">>,
      <<" ">>>>

\* The most fragments in one message.
MaxFragments == 2

RECURSIVE Concat(_)
Concat(seqs) == IF Len(seqs) = 0 THEN <<>> ELSE Head(seqs) \o Concat(Tail(seqs))

FragmentSeqs ==
    UNION {[1..n -> 1..Len(Fragments)] : n \in 0..MaxFragments}

ErrorInputs ==
    /\ errIn \in FragmentSeqs
    /\ errOut = None

\* handleError(new Error(message)), message the concatenation of the fragments.
ErrorMessage == Concat([i \in 1..Len(errIn) |-> Fragments[errIn[i]]])

NormalizeError ==
    /\ ~errOut.has
    /\ errOut' = Some(handleError(ErrorObj(ErrorMessage)))
    /\ UNCHANGED errIn

(***************************************************************************)
(* PROMPT GENERATION (source lines 73-113), on bounded records (SpecPrompt)*)
(***************************************************************************)
\* The values of release_date / first_air_date: absent, empty, ISO date-only
\* strings, a string with month 13, a string that is no date at all.
DateValues ==
    {None, Some(<<>>),
     Some(<<"2","0","2","0","-","0","5","-","1","7">>),
     Some(<<"2","0","2","1","-","0","1","-","0","1">>),
     Some(<<"1","9","9","9","-","1","2","-","3","1">>),
     Some(<<"2","0","1","9">>),
     Some(<<"2","0","2","0","-","1","3","-","0","1">>),
     Some(<<"n","o","t","-","a","-","d","a","t","e">>)}

\* Sign of the host's offset from UTC (getFullYear reads local time).
TimeZones == {-1, 0, 1}

AllDigits(s) == \A i \in 1..Len(s) : IsDigit(s[i])

NotADate == [valid |-> FALSE, y |-> 0, m |-> 0, d |-> 0]

\* new Date(s) for the ISO date-only forms YYYY, YYYY-MM and YYYY-MM-DD, which
\* denote midnight UTC; a month outside 1..12 or a day outside 1..31, and any
\* other text of DateValues, is an Invalid Date.
DateParse(s) ==
    LET Num(i, j) == DigitsValue(s, i, j)
        shape == \/ Len(s) = 4 /\ AllDigits(s)
                 \/ Len(s) = 7 /\ AllDigits(SubSeq(s, 1, 4)) /\ s[5] = "-"
                              /\ AllDigits(SubSeq(s, 6, 7))
                 \/ Len(s) = 10 /\ AllDigits(SubSeq(s, 1, 4)) /\ s[5] = "-"
                               /\ AllDigits(SubSeq(s, 6, 7)) /\ s[8] = "-"
                               /\ AllDigits(SubSeq(s, 9, 10))
        m == IF Len(s) >= 7 THEN Num(6, 7) ELSE 1
        d == IF Len(s) >= 10 THEN Num(9, 10) ELSE 1 IN
    IF shape /\ m \in 1..12 /\ d \in 1..31
    THEN [valid |-> TRUE, y |-> Num(1, 4), m |-> m, d |-> d]
    ELSE NotADate

\* Date.prototype.getFullYear in a host of time zone tz: NaN for an Invalid
\* Date; midnight UTC of 1 January is still 31 December west of Greenwich.
getFullYear(date, tz) ==
    IF ~date.valid THEN [nan |-> TRUE, n |-> 0]
    ELSE [nan |-> FALSE, n |-> IF tz < 0 /\ date.m = 1 /\ date.d = 1 THEN date.y - 1 ELSE date.y]

StrUnknown == <<"U","n","k","n","o","w","n">>
StrNaN == <<"N","a","N">>
StrUndefined == <<"u","n","d","e","f","i","n","e","d">>
LabelTV == <<"T","V"," ","S","e","r","i","e","s">>
LabelMovie == <<"M","o","v","i","e">>

\* `${x}` of a number
NumberToString(x) == IF x.nan THEN StrNaN ELSE IntToString(x.n)

\* The year of lines 77-83, as the template of line 87 renders it.
ReleaseYear(field, tz) ==
    IF TruthyProp(field) THEN NumberToString(getFullYear(DateParse(field.v), tz))
    ELSE StrUnknown

\* createMoviePrompt(data): the three values line 87 embeds in the text.
createMoviePrompt(d, tz) ==
    LET isTV == TruthyProp(d.name)
        title == IF isTV THEN d.name ELSE d.title IN
    [title |-> IF title.has THEN title.v ELSE StrUndefined,  \* `${undefined}`
     releaseYear |-> ReleaseYear(IF isTV THEN d.first_air_date ELSE d.release_date, tz),
     kind |-> IF isTV THEN LabelTV ELSE LabelMovie]

\* The records generateFacts passes on (line 280): a title or a name is set.
PromptDataValues ==
    {d \in [title : {None, Some(<<"H","e","a","t">>)}, name : {None, Some(<<"D","a","r","k">>)},
            release_date : DateValues, first_air_date : DateValues] :
        TruthyProp(d.name) \/ TruthyProp(d.title)}

PromptInputs ==
    /\ pData \in PromptDataValues
    /\ pTz \in TimeZones
    /\ pPrompt = None

BuildPrompt ==
    /\ ~pPrompt.has
    /\ pPrompt' = Some(createMoviePrompt(pData, pTz))
    /\ UNCHANGED <<pData, pTz>>

(***************************************************************************)
(* SINGLETON EXPORT (source lines 303-319) and the constructor (60-67)     *)
(***************************************************************************)
\* The most getGeminiService calls in one run.
MaxCalls == 3

\* The values of process.env.GEMINI_API_KEY: unset, empty, blank, two keys.
EnvValues ==
    {None, Some(<<>>), Some(<<" "," ">>), Some(<<"k","e","y","-","1">>),
     Some(<<"k","e","y","-","2">>)}

\* null, and a GeminiService instance: the n-th client handle constructed.
NoInstance == [id |-> 0, apiKey |-> <<>>]
Instance(n, key) == [id |-> n, apiKey |-> key]

\* !apiKey?.trim() (lines 61 and 309)
IsBlank(apiKey) == ~apiKey.has \/ Len(trim(apiKey.v)) = 0

\* The test of line 306 left out: every call takes the construction branch.
IsUnsetAlways(inst) == TRUE

\* !geminiServiceInstance (line 306)
IsUnset(inst) == inst = NoInstance

MsgNotConfigured ==
    <<"G","E","M","I","N","I","_","A","P","I","_","K","E","Y"," ","i","s"," ","n","o","t"," ",
      "c","o","n","f","i","g","u","r","e","d">>
MsgInvalidKey ==
    <<"I","n","v","a","l","i","d"," ","A","P","I"," ","k","e","y"," ","p","r","o","v","i","d","e","d">>

\* new GeminiService(apiKey) when n handles exist: throws on a blank key,
\* else constructs the next client handle.
Construct(apiKey, n) ==
    IF IsBlank(apiKey) THEN Threw(ErrorObj(MsgInvalidKey))
    ELSE Returned(Instance(n + 1, apiKey.v))

\* getGeminiService() with the module variable `inst`, the credential
\* `apiKey` and n handles constructed: what it returns or throws.
GetService(inst, apiKey, n) ==
    IF IsUnset(inst)
    THEN IF IsBlank(apiKey) THEN Threw(ErrorObj(MsgNotConfigured))
         ELSE Construct(apiKey, n)
    ELSE Returned(inst)

SingletonStart ==
    /\ env \in EnvValues
    /\ geminiServiceInstance = NoInstance
    /\ constructed = 0
    /\ calls = 0
    /\ lastCall = [made |-> FALSE, threw |-> FALSE, value |-> NoInstance,
                   before |-> NoInstance, key |-> None, built |-> 0]

\* One call of getGeminiService (synchronous, so one step).
getGeminiService ==
    /\ calls < MaxCalls
    /\ LET r == GetService(geminiServiceInstance, env, constructed)
           built == IF ~r.threw /\ r.value # geminiServiceInstance THEN 1 ELSE 0 IN
       /\ geminiServiceInstance' = IF r.threw THEN geminiServiceInstance ELSE r.value
       /\ constructed' = constructed + built
       /\ lastCall' = [made |-> TRUE, threw |-> r.threw,
                       value |-> IF r.threw THEN NoInstance ELSE r.value,
                       before |-> geminiServiceInstance, key |-> env, built |-> built]
    /\ calls' = calls + 1
    /\ UNCHANGED env

\* The host changes process.env.GEMINI_API_KEY.
SetEnv(v) ==
    /\ env # v
    /\ env' = v
    /\ UNCHANGED <<geminiServiceInstance, constructed, calls, lastCall>>

(***************************************************************************)
(* Specifications                                                          *)
(***************************************************************************)
\* The part of the state a specification does not use stays as it is here.
IdleError == errIn = <<>> /\ errOut = None
IdlePrompt ==
    /\ pData = [title |-> Some(<<"H","e","a","t">>), name |-> None,
                release_date |-> None, first_air_date |-> None]
    /\ pTz = 0
    /\ pPrompt = None
IdleSingleton ==
    /\ env = None
    /\ geminiServiceInstance = NoInstance
    /\ constructed = 0
    /\ calls = 0
    /\ lastCall = [made |-> FALSE, threw |-> FALSE, value |-> NoInstance,
                   before |-> NoInstance, key |-> None, built |-> 0]

Init == ServiceStart /\ IdleError /\ IdlePrompt /\ IdleSingleton

Next ==
    \/ \E d \in MovieDataValues : CallGenerateFacts(d) /\ UNCHANGED <<errVars, promptVars, singletonVars>>
    \/ CallGenerateSuggestion /\ UNCHANGED <<errVars, promptVars, singletonVars>>
    \/ \E r \in Responses : EndpointResolves(r) /\ UNCHANGED <<errVars, promptVars, singletonVars>>
    \/ \E e \in Rejections : EndpointRejects(e) /\ UNCHANGED <<errVars, promptVars, singletonVars>>
    \/ TimerFires /\ UNCHANGED <<errVars, promptVars, singletonVars>>
    \/ CallerContinues /\ UNCHANGED <<errVars, promptVars, singletonVars>>

Spec == Init /\ [][Next]_vars

NextError == NormalizeError /\ UNCHANGED <<svcVars, promptVars, singletonVars>>
InitError == ServiceStart /\ ErrorInputs /\ IdlePrompt /\ IdleSingleton
SpecError == InitError /\ [][NextError]_vars

NextPrompt == BuildPrompt /\ UNCHANGED <<svcVars, errVars, singletonVars>>
InitPrompt == ServiceStart /\ IdleError /\ PromptInputs /\ IdleSingleton
SpecPrompt == InitPrompt /\ [][NextPrompt]_vars

NextSingleton ==
    \/ getGeminiService /\ UNCHANGED <<svcVars, errVars, promptVars>>
    \/ \E v \in EnvValues : SetEnv(v) /\ UNCHANGED <<svcVars, errVars, promptVars>>
InitSingleton == ServiceStart /\ IdleError /\ IdlePrompt /\ SingletonStart
SpecSingleton == InitSingleton /\ [][NextSingleton]_vars

(***************************************************************************)
(* Properties                                                              *)
(***************************************************************************)
Last(seq) == seq[Len(seq)]
Settled == pc = "done"
ReturnedResult == Settled /\ outcome = "resolved"

\* C1: generateFacts and generateSuggestion never reject: whatever the record
\* and whatever the endpoint does, a settled call has resolved with a result
\* record that carries a success flag.
C1_AlwaysResolves ==
    Settled => outcome = "resolved" /\ result.success \in BOOLEAN

\* C2: a result with success=false has an error that is a non-empty string and
\* an empty payload: no facts, or the placeholder suggestion.
C2_FailureIsErrorPlusPlaceholder ==
    (ReturnedResult /\ ~result.success) =>
        /\ result.error.has
        /\ Len(result.error.v) > 0
        /\ op = "facts" => result.facts = <<>>
        /\ op = "suggestion" => result.suggestion = PlaceholderSuggestion

\* C3: a result with success=true carries a validated payload: 1 to 10 facts,
\* each longer than 10 characters, or a suggestion whose six fields are all
\* non-empty and whose type is "movie" or "series".
C3_SuccessIsValidated ==
    (ReturnedResult /\ result.success) =>
        /\ op = "facts" =>
              /\ Len(result.facts) \in 1..MaxFacts
              /\ \A i \in 1..Len(result.facts) : Len(result.facts[i]) > MinFactLength
        /\ op = "suggestion" =>
              /\ Len(result.suggestion.title) > 0
              /\ Len(result.suggestion.year) > 0
              /\ Len(result.suggestion.overview) > 0
              /\ Len(result.suggestion.reason) > 0
              /\ Len(result.suggestion.searchKeyword) > 0
              /\ result.suggestion.type \in {Movie, Series}

\* The retry loop by itself: at most three requests, 900 ms awaited before the
\* second and 1800 ms before the third, and the first request that resolves
\* ends the loop.
RetryMechanics ==
    op = "facts" =>
        /\ requests <= DefaultRetries + 1
        /\ waits = SubSeq(<<900, 1800>>, 1, Len(waits))
        /\ pc = "request" => Len(waits) = requests - 1
        /\ \A i \in 1..(Len(replies) - 1) : replies[i] = "rejected"
        /\ (replies # <<>> /\ Last(replies) = "resolved") => Settled

\* C4: retry runs the operation at most three times, returns the first
\* success, waits 900 ms and then 1800 ms, and when every attempt fails the
\* last failure reaches generateFacts, which returns a success=false result.
C4_RetryContract ==
    /\ RetryMechanics
    /\ (op = "facts" /\ replies = <<"rejected", "rejected", "rejected">>) =>
           /\ ReturnedResult
           /\ ~result.success

\* C5: generateFacts on a record with neither title nor name returns
\* { facts: [], success: false, error: "Title is required" } and issues no
\* request and awaits no timer.
C5_TitleRequired ==
    (op = "facts" /\ ~data.title.has /\ ~data.name.has) =>
        /\ ReturnedResult
        /\ result = [facts |-> <<>>, success |-> FALSE, error |-> Some(MsgTitleRequired)]
        /\ requests = 0
        /\ waits = <<>>
        /\ replies = <<>>

C5_Witness ==
    /\ op = "facts" /\ ~data.title.has /\ ~data.name.has
    /\ ReturnedResult
    /\ result.error = Some(MsgTitleRequired)

\* C6: a generateSuggestion call issues exactly one request and awaits no
\* timer, and any failure of that request, a rejection included, gives a
\* success=false result.
C6_SuggestionSingleRequest ==
    op = "suggestion" =>
        /\ requests = 1
        /\ waits = <<>>
        /\ Len(replies) <= 1
        /\ replies # <<>> => Settled
        /\ Settled => outcome = "resolved"
        /\ (Settled /\ replies = <<"rejected">>) => ~result.success

\* C10: within a generateFacts call a request follows only a rejected request;
\* a reply without text, or one no fact can be extracted from, ends the call
\* with a success=false result whatever retries remain.
C10_OnlyRejectionsRetried ==
    op = "facts" =>
        /\ \A i \in 1..(Len(replies) - 1) : replies[i] = "rejected"
        /\ requests = Len(replies) + (IF pc = "request" THEN 1 ELSE 0)
        /\ (replies # <<>> /\ Last(replies) = "resolved") =>
               /\ Settled
               /\ (NoText(response) \/ parseFactsResponse(response.text.v) = <<>>) =>
                      /\ outcome = "resolved"
                      /\ ~result.success
                      /\ result.facts = <<>>

C10_Witness ==
    /\ op = "facts"
    /\ replies = <<"resolved">>
    /\ retries = DefaultRetries
    /\ requests = 1
    /\ NoText(response)
    /\ ReturnedResult
    /\ ~result.success

\* Whether keyword kw occurs in message m, letter case ignored.
OccursIgnoringCase(m, kw) ==
    \E i \in 1..(Len(m) - Len(kw) + 1) :
        \A j \in 1..Len(kw) : ToLowerChar(m[i + j - 1]) = kw[j]
IsAuth(m) == OccursIgnoringCase(m, KwApiKey) \/ OccursIgnoringCase(m, KwAuthentication)
IsRateLimit(m) == OccursIgnoringCase(m, KwQuota) \/ OccursIgnoringCase(m, KwRateLimit)
IsOverload(m) == OccursIgnoringCase(m, KwOverloaded) \/ OccursIgnoringCase(m, KwUnavailable)
IsFiltered(m) == OccursIgnoringCase(m, KwBlocked) \/ OccursIgnoringCase(m, KwSafety)

\* C9: handleError returns the message of the highest-priority class (auth,
\* rate limit, overload, content filter) one of whose keywords occurs in the
\* error message in any letter case, and the message itself when none does.
C9_NormalizeErrorPriority ==
    errOut.has =>
        LET m == ErrorMessage
            out == errOut.v IN
        /\ ~out.threw
        /\ IsAuth(m) => out.value = MsgAuth
        /\ (~IsAuth(m) /\ IsRateLimit(m)) => out.value = MsgRateLimit
        /\ (~IsAuth(m) /\ ~IsRateLimit(m) /\ IsOverload(m)) => out.value = MsgOverloaded
        /\ (~IsAuth(m) /\ ~IsRateLimit(m) /\ ~IsOverload(m) /\ IsFiltered(m)) =>
               out.value = MsgBlocked
        /\ (~IsAuth(m) /\ ~IsRateLimit(m) /\ ~IsOverload(m) /\ ~IsFiltered(m)) =>
               out.value = m

\* "QUOTA" followed by "API Key ": two classes, upper case, auth wins.
C9_Witness ==
    /\ errOut.has
    /\ errIn = <<3, 1>>
    /\ errOut.v.value = MsgAuth

\* The date field the prompt's year is taken from.
RelevantDate(d) == IF d.name.has THEN d.first_air_date ELSE d.release_date

\* C8: when the relevant date field is absent or does not parse as a date the
\* rendered year is "Unknown"; a year is rendered only for a valid date.
C8_UnknownYear ==
    pPrompt.has =>
        LET f == RelevantDate(pData)
            parses == f.has /\ DateParse(f.v).valid IN
        /\ ~parses => pPrompt.v.releaseYear = StrUnknown
        /\ AllDigits(pPrompt.v.releaseYear) => parses

\* What the last call did when the singleton was already set: it returned it
\* and constructed nothing.
ReturnsExisting ==
    (lastCall.made /\ lastCall.before # NoInstance) =>
        /\ ~lastCall.threw
        /\ lastCall.value = lastCall.before
        /\ lastCall.built = 0
        /\ geminiServiceInstance = lastCall.before

\* What the last call did when the singleton was unset and the credential
\* present: it constructed the one handle, stored and returned it.
ConstructsOnce ==
    /\ constructed <= 1
    /\ (lastCall.made /\ lastCall.before = NoInstance /\ ~IsBlank(lastCall.key)) =>
           /\ ~lastCall.threw
           /\ lastCall.built = 1
           /\ lastCall.value = Instance(1, lastCall.key.v)
           /\ geminiServiceInstance = lastCall.value

\* The configuration error: thrown, nothing constructed, singleton unset.
ThrewNotConfigured ==
    /\ lastCall.threw
    /\ lastCall.built = 0
    /\ geminiServiceInstance = NoInstance

\* C7 as stated: at most one handle is constructed, later calls return it, and
\* every call made while the credential is missing or blank throws, constructs
\* nothing and leaves the singleton unset.
C7_SingletonAsStated ==
    /\ ConstructsOnce
    /\ ReturnsExisting
    /\ (lastCall.made /\ IsBlank(lastCall.key)) => ThrewNotConfigured

\* C7 amended: as above, but a call made while the credential is missing or
\* blank throws only if the singleton is still unset; once the handle exists
\* every call returns it, whatever the credential is by then.
C7_SingletonAmended ==
    /\ ConstructsOnce
    /\ ReturnsExisting
    /\ (lastCall.made /\ IsBlank(lastCall.key) /\ lastCall.before = NoInstance) =>
           ThrewNotConfigured

\* A call with a blank credential after the handle was constructed, and a
\* third call that found the handle of the first.
C7_Witness ==
    /\ calls = 3
    /\ constructed = 1
    /\ lastCall.before # NoInstance
    /\ IsBlank(lastCall.key)
    /\ lastCall.value = lastCall.before

====
